---- MODULE Spec2Model ----
(***************************************************************************)
(* Wilson's algorithm, random-spanning-forest variant, on a 2d lattice:    *)
(* a model of wilson_RSF_grid_2d (src/wilsonRSF.py).                       *)
(*                                                                         *)
(* Nodes are the pairs <<i, j>> of networkx's grid_2d_graph, 0-based.      *)
(* Python lists are sequences.  A float is modelled by the exact rational  *)
(* <<num, den>> it approximates, plus a nan flag.                          *)
(***************************************************************************)
EXTENDS Integers, Sequences, FiniteSets, TLC

\* Bounds of the exploration.
MaxRows == 2
MaxCols == 3
MaxSteps == 6
DrawLevels == 2

VARIABLES dim, q, pc, exc, absorb, it,
          RW_node, edge_list, covered_nodes, roots, root_indices,
          start_node, temp_edge_list, trajectory, end_traj_is_root

vars == <<dim, q, pc, exc, absorb, it,
          RW_node, edge_list, covered_nodes, roots, root_indices,
          start_node, temp_edge_list, trajectory, end_traj_is_root>>

----------------------------------------------------------------------------
\* Helpers on sequences (Python list operations).

Last(s) == s[Len(s)]

Range(s) == {s[k] : k \in 1..Len(s)}

\* list.count(x)
Count(s, x) == Cardinality({k \in 1..Len(s) : s[k] = x})

\* list.index(x): position of the first occurrence (1-based here)
Index(s, x) == CHOOSE k \in 1..Len(s) : s[k] = x /\ \A j \in 1..(k-1) : s[j] # x

----------------------------------------------------------------------------
\* The graph: nx.grid_2d_graph(dim[0], dim[1]).

\* G.nodes(): the nodes in networkx's enumeration order (row-major).
Nodes(d) == {<<i, j>> : i \in 0..(d[1]-1), j \in 0..(d[2]-1)}

NodeSeq(d) == [k \in 1..(d[1]*d[2]) |-> <<(k-1) \div d[2], (k-1) % d[2]>>]

\* G.adj[n]: lattice neighbours of n.
Adj(d, n) == {m \in Nodes(d) :
                 \/ m[1] = n[1] /\ (m[2] = n[2] + 1 \/ m[2] = n[2] - 1)
                 \/ m[2] = n[2] /\ (m[1] = n[1] + 1 \/ m[1] = n[1] - 1)}

Degree(d, n) == Cardinality(Adj(d, n))

----------------------------------------------------------------------------
\* The killing parameter and the absorption threshold.

\* q as passed by the caller: a finite number val, a float so large that
\* q + 4 rounds to q ("big"), or float('inf').
QValues == {[kind |-> "fin", val |-> v] : v \in {-5, -4, -1, 0, 1}}
             \cup {[kind |-> "big", val |-> 0], [kind |-> "inf", val |-> 0]}

Rat(n, d) == IF d < 0 THEN [nan |-> FALSE, num |-> -n, den |-> -d]
                      ELSE [nan |-> FALSE, num |-> n, den |-> d]

NaN == [nan |-> TRUE, num |-> 0, den |-> 1]

\* q + 4 == 0: the division of line 85 raises ZeroDivisionError.
DivisionFails(qq) == qq.kind = "fin" /\ qq.val + 4 = 0

\* absorb = q/(q-4)
ComputeAbsorbMinus(qq) ==
    CASE qq.kind = "fin" -> Rat(qq.val, qq.val - 4)
      [] qq.kind = "big" -> Rat(1, 1)
      [] qq.kind = "inf" -> NaN

\* absorb = q/(q+4)
ComputeAbsorb(qq) ==
    CASE qq.kind = "fin" -> Rat(qq.val, qq.val + 4)
      [] qq.kind = "big" -> Rat(1, 1)
      [] qq.kind = "inf" -> NaN

\* random.random(): a float of [0.0, 1.0), here one of k/DrawLevels.
Draws == {Rat(k, DrawLevels) : k \in 0..(DrawLevels-1)}

\* "not u <= a" in place of "u > a": True when a is nan.
GreaterNotLeq(u, a) == ~(~u.nan /\ ~a.nan /\ u.num * a.den <= a.num * u.den)

\* u > a on floats; any comparison with nan is False.
Greater(u, a) == ~u.nan /\ ~a.nan /\ u.num * a.den > a.num * u.den

----------------------------------------------------------------------------
\* edges_connecting_nodes with range(len(node_list)-2): the last pair is lost.
EdgesDropLast(node_list) ==
    [j \in 1..(Len(node_list)-2) |-> <<node_list[j], node_list[j+1]>>]

\* edges_connecting_nodes appending (node_list[j+1], node_list[j]).
EdgesReversed(node_list) ==
    [j \in 1..(Len(node_list)-1) |-> <<node_list[j+1], node_list[j]>>]

\* edges_connecting_nodes(node_list)
edges_connecting_nodes(node_list) ==
    [j \in 1..(Len(node_list)-1) |-> <<node_list[j], node_list[j+1]>>]

\* Advance without the loop erasure.
AdvanceNoErase(traj, new_node) == Append(traj, new_node)

\* Advance erasing the revisited node together with the loop.
AdvanceOffByOne(traj, new_node) ==
    IF Count(traj, new_node) = 0
    THEN Append(traj, new_node)
    ELSE SubSeq(traj, 1, Index(traj, new_node) - 1)

\* Lines 119-124: the loop-erased trajectory after the walk moved to new_node.
Advance(traj, new_node) ==
    IF Count(traj, new_node) = 0
    THEN Append(traj, new_node)
    ELSE SubSeq(traj, 1, Index(traj, new_node))

----------------------------------------------------------------------------
Init ==
    /\ dim \in (1..MaxRows) \X (1..MaxCols)
    /\ q \in QValues
    /\ pc = "call"
    /\ exc = "none"
    /\ absorb = NaN
    /\ it = 1
    /\ RW_node = <<>>
    /\ edge_list = <<>>
    /\ covered_nodes = <<>>
    /\ roots = <<>>
    /\ root_indices = <<>>
    /\ start_node = <<0, 0>>
    /\ temp_edge_list = <<>>
    /\ trajectory = <<>>
    /\ end_traj_is_root = TRUE

\* Lines 84-91: the graph, the threshold and the empty lists.
Construct ==
    /\ pc = "call"
    /\ ~DivisionFails(q)
    /\ absorb' = ComputeAbsorb(q)
    /\ pc' = "for"
    /\ UNCHANGED <<dim, q, exc, it, RW_node, edge_list, covered_nodes, roots,
                   root_indices, start_node, temp_edge_list, trajectory,
                   end_traj_is_root>>

\* Line 85 with q + 4 == 0.
ConstructFails ==
    /\ pc = "call"
    /\ DivisionFails(q)
    /\ pc' = "raised"
    /\ exc' = "ZeroDivisionError"
    /\ UNCHANGED <<dim, q, absorb, it, RW_node, edge_list, covered_nodes, roots,
                   root_indices, start_node, temp_edge_list, trajectory,
                   end_traj_is_root>>

\* SkipNode with the test of lines 96-98 placed after lines 101-108: the
\* skipped node is recorded in the trace.
SkipNodeRecords ==
    /\ pc = "for"
    /\ it <= Len(NodeSeq(dim))
    /\ Count(covered_nodes, NodeSeq(dim)[it]) > 0
    /\ start_node' = NodeSeq(dim)[it]
    /\ RW_node' = Append(RW_node, NodeSeq(dim)[it])
    /\ temp_edge_list' = IF edge_list = <<>> THEN <<>> ELSE Last(edge_list)
    /\ edge_list' = Append(edge_list, temp_edge_list')
    /\ it' = it + 1
    /\ UNCHANGED <<dim, q, pc, exc, absorb, covered_nodes, roots, root_indices,
                   trajectory, end_traj_is_root>>

\* Lines 93-98: the next node of G.nodes() is already covered.
SkipNode ==
    /\ pc = "for"
    /\ it <= Len(NodeSeq(dim))
    /\ Count(covered_nodes, NodeSeq(dim)[it]) > 0
    /\ start_node' = NodeSeq(dim)[it]
    /\ it' = it + 1
    /\ UNCHANGED <<dim, q, pc, exc, absorb, RW_node, edge_list, covered_nodes,
                   roots, root_indices, temp_edge_list, trajectory,
                   end_traj_is_root>>

\* Lines 93-111: the next node of G.nodes() starts a walk.
StartWalk ==
    /\ pc = "for"
    /\ it <= Len(NodeSeq(dim))
    /\ Count(covered_nodes, NodeSeq(dim)[it]) = 0
    /\ start_node' = NodeSeq(dim)[it]
    /\ RW_node' = Append(RW_node, NodeSeq(dim)[it])
    /\ temp_edge_list' = IF edge_list = <<>> THEN <<>> ELSE Last(edge_list)
    /\ edge_list' = Append(edge_list, temp_edge_list')
    /\ trajectory' = <<NodeSeq(dim)[it]>>
    /\ end_traj_is_root' = TRUE
    /\ pc' = "while"
    /\ UNCHANGED <<dim, q, exc, absorb, it, covered_nodes, roots, root_indices>>

\* StepContinue without the test of lines 133-134: the walk goes on over
\* covered nodes too.
StepContinueIgnoresCovered ==
    /\ pc = "while"
    /\ Len(RW_node) < MaxSteps
    /\ \E u \in Draws : Greater(u, absorb)
    /\ \E new_node \in Adj(dim, Last(RW_node)) :
          /\ RW_node' = Append(RW_node, new_node)
          /\ trajectory' = Advance(trajectory, new_node)
          /\ edge_list' = Append(edge_list,
                                 temp_edge_list \o edges_connecting_nodes(trajectory'))
    /\ UNCHANGED <<dim, q, pc, exc, absorb, it, covered_nodes, roots,
                   root_indices, start_node, temp_edge_list, end_traj_is_root>>

\* StepContinue with total_edges = temp_edge_list in place of the copy of line
\* 127: the extend of line 129 then changes the list that temp_edge_list and
\* the snapshots sharing it refer to.
StepContinueNoCopy ==
    /\ pc = "while"
    /\ Len(RW_node) < MaxSteps
    /\ \E u \in Draws : Greater(u, absorb)
    /\ \E new_node \in Adj(dim, Last(RW_node)) :
          /\ Count(covered_nodes, new_node) = 0
          /\ RW_node' = Append(RW_node, new_node)
          /\ trajectory' = Advance(trajectory, new_node)
          /\ temp_edge_list' = temp_edge_list \o edges_connecting_nodes(trajectory')
          /\ edge_list' = Append([k \in 1..Len(edge_list) |->
                                     IF edge_list[k] = temp_edge_list
                                     THEN temp_edge_list' ELSE edge_list[k]],
                                 temp_edge_list')
    /\ UNCHANGED <<dim, q, pc, exc, absorb, it, covered_nodes, roots,
                   root_indices, start_node, end_traj_is_root>>

\* Line 113 true, lines 116-134 with new_node not covered: the walk goes on.
StepContinue ==
    /\ pc = "while"
    /\ Len(RW_node) < MaxSteps
    /\ \E u \in Draws : Greater(u, absorb)
    /\ \E new_node \in Adj(dim, Last(RW_node)) :
          /\ Count(covered_nodes, new_node) = 0
          /\ RW_node' = Append(RW_node, new_node)
          /\ trajectory' = Advance(trajectory, new_node)
          /\ edge_list' = Append(edge_list,
                                 temp_edge_list \o edges_connecting_nodes(trajectory'))
    /\ UNCHANGED <<dim, q, pc, exc, absorb, it, covered_nodes, roots,
                   root_indices, start_node, temp_edge_list, end_traj_is_root>>

\* StepMerge without line 135: the end of the merged trajectory is recorded
\* as a root.
StepMergeRecordsRoot ==
    /\ pc = "while"
    /\ Len(RW_node) < MaxSteps
    /\ \E u \in Draws : Greater(u, absorb)
    /\ \E new_node \in Adj(dim, Last(RW_node)) :
          /\ Count(covered_nodes, new_node) > 0
          /\ RW_node' = Append(RW_node, new_node)
          /\ trajectory' = Advance(trajectory, new_node)
          /\ edge_list' = Append(edge_list,
                                 temp_edge_list \o edges_connecting_nodes(trajectory'))
          /\ covered_nodes' = covered_nodes \o trajectory'
          /\ roots' = Append(roots, new_node)
          /\ root_indices' = Append(root_indices, Len(RW_node))
    /\ it' = it + 1
    /\ pc' = "for"
    /\ UNCHANGED <<dim, q, exc, absorb, start_node, temp_edge_list,
                   end_traj_is_root>>

\* Line 113 true, lines 116-136 with new_node covered, then lines 139-144:
\* the walk merges and its trajectory is committed.
StepMerge ==
    /\ pc = "while"
    /\ Len(RW_node) < MaxSteps
    /\ \E u \in Draws : Greater(u, absorb)
    /\ \E new_node \in Adj(dim, Last(RW_node)) :
          /\ Count(covered_nodes, new_node) > 0
          /\ RW_node' = Append(RW_node, new_node)
          /\ trajectory' = Advance(trajectory, new_node)
          /\ edge_list' = Append(edge_list,
                                 temp_edge_list \o edges_connecting_nodes(trajectory'))
          /\ covered_nodes' = covered_nodes \o trajectory'
    /\ end_traj_is_root' = FALSE
    /\ it' = it + 1
    /\ pc' = "for"
    /\ UNCHANGED <<dim, q, exc, absorb, roots, root_indices, start_node,
                   temp_edge_list>>

\* Line 113 true, line 116 on a node without neighbours: random.choice of an
\* empty list raises IndexError.
StepFails ==
    /\ pc = "while"
    /\ \E u \in Draws : Greater(u, absorb)
    /\ Adj(dim, Last(RW_node)) = {}
    /\ pc' = "raised"
    /\ exc' = "IndexError"
    /\ UNCHANGED <<dim, q, absorb, it, RW_node, edge_list, covered_nodes, roots,
                   root_indices, start_node, temp_edge_list, trajectory,
                   end_traj_is_root>>

\* Absorb with root_indices.append(len(RW_node)): one past the last position.
AbsorbIndexOffByOne ==
    /\ pc = "while"
    /\ \E u \in Draws : ~Greater(u, absorb)
    /\ roots' = Append(roots, Last(trajectory))
    /\ root_indices' = Append(root_indices, Len(RW_node))
    /\ covered_nodes' = covered_nodes \o trajectory
    /\ it' = it + 1
    /\ pc' = "for"
    /\ UNCHANGED <<dim, q, exc, absorb, RW_node, edge_list, start_node,
                   temp_edge_list, trajectory, end_traj_is_root>>

\* Absorb recording a root only for a trajectory that took a step.
AbsorbNoSingletonRoot ==
    /\ pc = "while"
    /\ \E u \in Draws : ~Greater(u, absorb)
    /\ roots' = IF Len(trajectory) > 1 THEN Append(roots, Last(trajectory)) ELSE roots
    /\ root_indices' = IF Len(trajectory) > 1 THEN Append(root_indices, Len(RW_node) - 1)
                                               ELSE root_indices
    /\ covered_nodes' = covered_nodes \o trajectory
    /\ it' = it + 1
    /\ pc' = "for"
    /\ UNCHANGED <<dim, q, exc, absorb, RW_node, edge_list, start_node,
                   temp_edge_list, trajectory, end_traj_is_root>>

\* Line 113 false, then lines 139-144: the walk is absorbed, the end of its
\* trajectory becomes a root and the trajectory is committed.
Absorb ==
    /\ pc = "while"
    /\ \E u \in Draws : ~Greater(u, absorb)
    /\ roots' = Append(roots, Last(trajectory))
    /\ root_indices' = Append(root_indices, Len(RW_node) - 1)
    /\ covered_nodes' = covered_nodes \o trajectory
    /\ it' = it + 1
    /\ pc' = "for"
    /\ UNCHANGED <<dim, q, exc, absorb, RW_node, edge_list, start_node,
                   temp_edge_list, trajectory, end_traj_is_root>>

\* Lines 93, 146-152: G.nodes() is exhausted, the function returns.
Finish ==
    /\ pc = "for"
    /\ it > Len(NodeSeq(dim))
    /\ pc' = "done"
    /\ UNCHANGED <<dim, q, exc, absorb, it, RW_node, edge_list, covered_nodes,
                   roots, root_indices, start_node, temp_edge_list, trajectory,
                   end_traj_is_root>>

Next ==
    \/ Construct
    \/ ConstructFails
    \/ SkipNode
    \/ StartWalk
    \/ StepContinue
    \/ StepMerge
    \/ StepFails
    \/ Absorb
    \/ Finish

Spec == Init /\ [][Next]_vars

----------------------------------------------------------------------------
\* Vocabulary of the properties.

NumNodes == Cardinality(Nodes(dim))

\* The final edge list, edge_list[-1].
FinalEdges == Last(edge_list)

Endpoints(es) == {es[k][1] : k \in 1..Len(es)} \cup {es[k][2] : k \in 1..Len(es)}

\* The nodes joined to a node of S by a path of edges of E, read undirected.
RECURSIVE ReachSet(_, _)
ReachSet(E, S) ==
    LET T == S \cup {e[2] : e \in {f \in E : f[1] \in S}}
               \cup {e[1] : e \in {f \in E : f[2] \in S}}
    IN IF T = S THEN S ELSE ReachSet(E, T)

\* No cycle among the edges of the list es, read undirected: no self-loop,
\* and no edge whose ends are joined by the other edges of the list.
Acyclic(es) ==
    /\ \A i \in 1..Len(es) : es[i][1] # es[i][2]
    /\ \A i \in 1..Len(es) :
          es[i][2] \notin ReachSet({es[j] : j \in (1..Len(es)) \ {i}}, {es[i][1]})

\* The build has returned.
Done == pc = "done"

\* Some walk of the build ended by merging into a covered node.
SomeMerge == \E n \in Nodes(dim) : Count(covered_nodes, n) > 1

----------------------------------------------------------------------------
\* C1: when the build has finished, the final edge list is a forest: it has
\* (number of nodes) - (number of roots) edges and no undirected cycle.
C1_Forest ==
    Done => /\ Len(FinalEdges) = NumNodes - Len(roots)
            /\ Acyclic(FinalEdges)

\* A finished build on the 2x3 lattice with two trees, one of them grown by a
\* merging walk.
C1_Witness ==
    /\ Done
    /\ dim = <<2, 3>>
    /\ Len(roots) = 2
    /\ Len(FinalEdges) = 4
    /\ SomeMerge

----------------------------------------------------------------------------
\* C2 as stated: when the build has finished, every node is in exactly one of
\* the endpoints of the final edges and the roots.
C2_ExactlyOne ==
    Done => \A n \in Nodes(dim) :
               (n \in Endpoints(FinalEdges)) # (n \in Range(roots))

\* C2 as amended: when the build has finished, every node is an endpoint of a
\* final edge or a root (never neither); the nodes in both are roots.
C2_Coverage ==
    Done => \A n \in Nodes(dim) :
               n \in Endpoints(FinalEdges) \/ n \in Range(roots)

\* A finished build with a root that is also an endpoint, a root that is not,
\* and an endpoint that is not a root.
C2_Witness ==
    /\ Done
    /\ \E n \in Range(roots) : n \in Endpoints(FinalEdges)
    /\ \E n \in Range(roots) : n \notin Endpoints(FinalEdges)
    /\ \E n \in Endpoints(FinalEdges) : n \notin Range(roots)

----------------------------------------------------------------------------
\* The build as the interpreter runs it: it never pauses while a statement
\* can execute, and a walk that can be absorbed at every draw is absorbed at
\* some draw.
FairSpec == Spec /\ WF_vars(Next) /\ WF_vars(Absorb)

QPositive == q.kind \in {"big", "inf"} \/ q.val > 0

MinDegreeOne == \A n \in Nodes(dim) : Degree(dim, n) >= 1

\* C3: for q > 0 on a lattice without a node of degree 0, a walk in progress
\* ends, by absorption (a root is recorded) or on a covered node, and the
\* build returns.
C3_Terminates ==
    /\ [][(QPositive /\ MinDegreeOne /\ pc = "while" /\ pc' # "while")
             => \/ pc' = "for" /\ roots' = Append(roots, Last(trajectory))
                \/ pc' = "for" /\ roots' = roots
                               /\ Last(RW_node') \in Range(covered_nodes)]_vars
    /\ [](QPositive /\ MinDegreeOne /\ pc = "while" => <>(pc = "for"))
    /\ (QPositive /\ MinDegreeOne => <>Done)

\* A finished build for q = 1 in which a walk merged and a walk was absorbed
\* after erasing a loop.
C3_Witness ==
    /\ Done
    /\ q = [kind |-> "fin", val |-> 1]
    /\ MinDegreeOne
    /\ SomeMerge
    /\ Len(RW_node) > NumNodes

----------------------------------------------------------------------------
\* The lattice is connected and has at least two nodes.
GEdges == {<<n, m>> : n \in Nodes(dim), m \in Nodes(dim)} \cap
          {e \in Nodes(dim) \X Nodes(dim) : e[2] \in Adj(dim, e[1])}

Components == {ReachSet(GEdges, {n}) : n \in Nodes(dim)}

QZero == q = [kind |-> "fin", val |-> 0]

\* C4: with q = 0 on a connected lattice of at least two nodes, the finished
\* build has exactly one root and (number of nodes - 1) edges.
C4_SpanningTree ==
    (Done /\ QZero /\ NumNodes >= 2 /\ Cardinality(Components) = 1)
       => /\ Len(roots) = 1
          /\ Len(FinalEdges) = NumNodes - 1

----------------------------------------------------------------------------
RootsIn(S) == {k \in 1..Len(roots) : roots[k] \in S}

\* C5 as stated: when the build has finished, every connected component of
\* the lattice holds exactly one root.
C5_OnePerComponent ==
    Done => \A comp \in Components : Cardinality(RootsIn(comp)) = 1

\* The trees of the result: the components of the final edges over the nodes.
Trees == {ReachSet(Range(FinalEdges), {n}) : n \in Nodes(dim)}

\* C5 as amended: when the build has finished, every connected component of
\* the final forest (every tree) holds exactly one root.
C5_OnePerTree ==
    Done => \A tree \in Trees : Cardinality(RootsIn(tree)) = 1

\* A finished build with two trees of more than one node, one grown by a merge.
C5_Witness ==
    /\ Done
    /\ SomeMerge
    /\ Cardinality({tree \in Trees : Cardinality(tree) > 1}) >= 2

----------------------------------------------------------------------------
\* The threshold of line 85 is at least 1, or nan: no draw exceeds it.
AbsorbsSurely == pc # "call" /\ (absorb.nan \/ absorb.num >= absorb.den)

\* C6: when the absorption probability is 1, no walk takes a step: the trace
\* follows the enumeration of the nodes, every snapshot is empty, and the
\* finished build has every node as a root, in enumeration order.
C6_AllRoots ==
    AbsorbsSurely =>
       /\ RW_node = SubSeq(NodeSeq(dim), 1, Len(RW_node))
       /\ \A k \in 1..Len(edge_list) : edge_list[k] = <<>>
       /\ Done => roots = NodeSeq(dim)

\* A finished build on the 2x3 lattice with q = inf.
C6_Witness ==
    /\ Done
    /\ q.kind = "inf"
    /\ dim = <<2, 3>>
    /\ Len(roots) = 6

----------------------------------------------------------------------------
QNegative == q.kind = "fin" /\ q.val < 0

\* C7: a build called with q < 0 fails at once with InvalidParameter, and
\* nothing has been recorded.
C7_InvalidParameter ==
    (QNegative /\ pc # "call")
       => /\ pc = "raised"
          /\ exc = "InvalidParameter"
          /\ RW_node = <<>>
          /\ edge_list = <<>>
          /\ covered_nodes = <<>>
          /\ roots = <<>>

----------------------------------------------------------------------------
\* The nodes A, B, C, D of the loop-erasure scenario, on the 2x3 lattice.
NodeA == <<0, 0>>
NodeB == <<0, 1>>
NodeC == <<0, 2>>
NodeD == <<1, 1>>

\* C8: a step to a node that occurs in the trajectory at index i leaves the
\* first i elements up to and including that occurrence; a step to any other
\* node appends it.  The first walk (nothing is covered yet), from A, fed B, C, B, D has the
\* trajectory [A, B, D] and the edges [(A,B), (B,D)].
C8_LoopErasure ==
    /\ [][Len(RW_node') = Len(RW_node) + 1 /\ pc = "while"
             => LET new_node == Last(RW_node')
                    occ == {i \in 1..Len(trajectory) : trajectory[i] = new_node}
                IN IF occ = {}
                   THEN trajectory' = trajectory \o <<new_node>>
                   ELSE \E i \in occ : trajectory' = [k \in 1..i |-> trajectory[k]]]_vars
    /\ [](dim = <<2, 3>> /\ covered_nodes = <<>>
              /\ RW_node = <<NodeA, NodeB, NodeC, NodeB, NodeD>>
             => /\ trajectory = <<NodeA, NodeB, NodeD>>
                /\ Last(edge_list) = << <<NodeA, NodeB>>, <<NodeB, NodeD>> >>)

\* The first walk has stood on A, B, C, B, D.
C8_Witness ==
    /\ dim = <<2, 3>>
    /\ covered_nodes = <<>>
    /\ RW_node = <<NodeA, NodeB, NodeC, NodeB, NodeD>>
    /\ pc = "while"

----------------------------------------------------------------------------
\* C10: while a walk is in progress, the threshold applied at its current
\* node equals q / (q + d), d the degree of that node.
C10_PerNodeAbsorb ==
    (pc = "while" /\ q.kind = "fin" /\ q.val >= 0
        /\ q.val + Degree(dim, Last(RW_node)) > 0)
       => /\ ~absorb.nan
          /\ absorb.num * (q.val + Degree(dim, Last(RW_node))) = q.val * absorb.den

----------------------------------------------------------------------------
\* C11: a build with q = 0 on the 1x1 lattice (its node has degree 0) is
\* rejected with InvalidGraph before anything is recorded.
C11_InvalidGraph ==
    (QZero /\ ~MinDegreeOne /\ pc # "call")
       => /\ pc = "raised"
          /\ exc = "InvalidGraph"
          /\ RW_node = <<>>
          /\ edge_list = <<>>
          /\ covered_nodes = <<>>
          /\ roots = <<>>

----------------------------------------------------------------------------
\* C12: the trace holds one snapshot per visited position, and the latest
\* snapshot is the edges committed by the earlier walks (as many as there are
\* covered nodes that are not roots, all between covered nodes) followed by
\* the consecutive pairs of the current loop-erased trajectory.
C12_TraceSnapshots ==
    /\ Len(RW_node) = Len(edge_list)
    /\ edge_list # <<>> =>
          LET latest == Last(edge_list)
              c == Len(latest) - (Len(trajectory) - 1)
          IN /\ c >= 0
             /\ [k \in 1..c |-> latest[k]] = temp_edge_list
             /\ \A j \in 1..(Len(trajectory) - 1) :
                   latest[c + j] = <<trajectory[j], trajectory[j+1]>>
             /\ pc = "while" =>
                   /\ c = Cardinality(Range(covered_nodes)) - Len(roots)
                   /\ Endpoints(temp_edge_list) \subseteq Range(covered_nodes)

\* A walk in progress over committed edges, one step away from its start,
\* after some walk erased a loop (a snapshot shorter than the one before it).
C12_Witness ==
    /\ pc = "while"
    /\ temp_edge_list # <<>>
    /\ Len(trajectory) >= 2
    /\ \E k \in 1..(Len(edge_list) - 1) : Len(edge_list[k]) > Len(edge_list[k+1])

----------------------------------------------------------------------------
\* C13: roots and root_indices have the same length, root_indices is strictly
\* increasing, and each root_indices[k] is a position of RW_node (0-based, as
\* in the code) at which the trace stands on roots[k].
C13_RootsAligned ==
    /\ Len(roots) = Len(root_indices)
    /\ \A k \in 1..Len(root_indices) :
          /\ 0 <= root_indices[k]
          /\ root_indices[k] < Len(RW_node)
          /\ RW_node[root_indices[k] + 1] = roots[k]
    /\ \A k \in 1..(Len(root_indices) - 1) : root_indices[k] < root_indices[k+1]

\* Two roots, the first found after a step, the second more than one trace
\* entry later.
C13_Witness ==
    /\ Len(roots) >= 2
    /\ root_indices[1] > 0
    /\ root_indices[2] > root_indices[1] + 1

----------------------------------------------------------------------------
\* C14: the trajectory holds no node twice and each consecutive pair of it is
\* an edge of G; while its walk is in progress it begins at the start node.
C14_SimplePath ==
    /\ \A i \in 1..Len(trajectory) : \A j \in 1..Len(trajectory) :
          trajectory[i] = trajectory[j] => i = j
    /\ \A j \in 1..(Len(trajectory) - 1) :
          trajectory[j+1] \in Adj(dim, trajectory[j])
    /\ pc = "while" => /\ trajectory # <<>>
                       /\ trajectory[1] = start_node

\* The first walk, three nodes long after it erased a loop.
C14_Witness ==
    /\ pc = "while"
    /\ covered_nodes = <<>>
    /\ Len(trajectory) = 3
    /\ Len(RW_node) = 5

----------------------------------------------------------------------------
\* C15: covered_nodes never contains the same node twice.
C15_WriteOnce ==
    \A n \in Nodes(dim) : Count(covered_nodes, n) <= 1

----------------------------------------------------------------------------
\* C16: a step onto a covered node ends the walk at that step and records no
\* root; a root is recorded only by a walk that stops without stepping, and
\* it is the end of its trajectory, a node not covered before the walk.
C16_MergeRule ==
    /\ [][(pc = "while" /\ Len(RW_node') = Len(RW_node) + 1
              /\ Last(RW_node') \in Range(covered_nodes))
             => /\ pc' = "for"
                /\ roots' = roots
                /\ root_indices' = root_indices]_vars
    /\ [][roots' # roots
             => /\ pc = "while"
                /\ pc' = "for"
                /\ RW_node' = RW_node
                /\ roots' = Append(roots, Last(trajectory))
                /\ Last(trajectory) \notin Range(covered_nodes)]_vars

\* A walk has just merged, after two walks were absorbed.
C16_Witness ==
    /\ pc = "for"
    /\ end_traj_is_root = FALSE
    /\ Last(RW_node) \in Range(roots)
    /\ Len(roots) >= 2

----------------------------------------------------------------------------
\* C17: while a walk is in progress, the node the next neighbour is chosen
\* from, RW_node[-1], is the last node of the trajectory.
C17_StepFromLast ==
    pc = "while" => /\ trajectory # <<>>
                    /\ Last(RW_node) = Last(trajectory)

\* A walk in progress that has just erased a loop.
C17_Witness ==
    /\ pc = "while"
    /\ Len(edge_list) >= 2
    /\ Len(Last(edge_list)) < Len(edge_list[Len(edge_list) - 1])

----------------------------------------------------------------------------
\* The final edges that leave node n, by position.
OutEdges(n) == {k \in 1..Len(FinalEdges) : FinalEdges[k][1] = n}

\* The node reached from n by following final edges from first to second
\* component, for at most hops hops.
RECURSIVE Follow(_, _)
Follow(n, hops) ==
    IF OutEdges(n) = {} \/ hops = 0
    THEN n
    ELSE Follow(FinalEdges[CHOOSE k \in OutEdges(n) : TRUE][2], hops - 1)

\* C18: when the build has finished, every node that is not a root is the
\* first component of exactly one final edge, no root is the first component
\* of a final edge, and following the edges from any node ends on a root.
C18_TowardRoots ==
    Done => \A n \in Nodes(dim) :
               /\ n \in Range(roots) => OutEdges(n) = {}
               /\ n \notin Range(roots) => Cardinality(OutEdges(n)) = 1
               /\ Follow(n, NumNodes) \in Range(roots)
               /\ OutEdges(Follow(n, NumNodes)) = {}

\* A finished build with two roots, a merged walk and a node two hops away
\* from its root.
C18_Witness ==
    /\ Done
    /\ SomeMerge
    /\ Len(roots) = 2
    /\ \E n \in Nodes(dim) : Follow(n, 1) # Follow(n, 2)

----------------------------------------------------------------------------
\* C19: the trace only grows at its end: no step changes an element of
\* RW_node or a snapshot of edge_list once it is there.
C19_AppendOnly ==
    [][/\ Len(RW_node') >= Len(RW_node)
       /\ Len(edge_list') >= Len(edge_list)
       /\ \A k \in 1..Len(RW_node) : RW_node'[k] = RW_node[k]
       /\ \A k \in 1..Len(edge_list) : edge_list'[k] = edge_list[k]]_vars

\* A later walk has stepped: its snapshot extends the one it shares with the
\* end of the previous walk.
C19_Witness ==
    /\ pc = "while"
    /\ temp_edge_list # <<>>
    /\ Len(Last(edge_list)) > Len(temp_edge_list)
    /\ \E k \in 1..(Len(edge_list) - 1) : edge_list[k] = temp_edge_list

----------------------------------------------------------------------------
\* C20: a walk in progress started from the node the enumeration stands on,
\* which was not covered; the nodes the enumeration has passed are covered; a
\* covered node is passed without a trace entry; an uncovered node starts a
\* walk; the enumeration moves on, by one node, when a walk ends, and the
\* start node is covered then.
C20_OneWalkPerNode ==
    /\ [](pc = "while" => /\ start_node = NodeSeq(dim)[it]
                          /\ Count(covered_nodes, start_node) = 0)
    /\ [](pc \in {"for", "done"}
             => \A k \in 1..(it - 1) : NodeSeq(dim)[k] \in Range(covered_nodes))
    /\ [][(pc = "for" /\ it <= NumNodes /\ NodeSeq(dim)[it] \in Range(covered_nodes))
             => /\ RW_node' = RW_node
                /\ edge_list' = edge_list
                /\ pc' = "for"
                /\ it' = it + 1]_vars
    /\ [][(pc = "for" /\ it <= NumNodes /\ NodeSeq(dim)[it] \notin Range(covered_nodes))
             => /\ pc' = "while"
                /\ it' = it
                /\ RW_node' = Append(RW_node, NodeSeq(dim)[it])
                /\ trajectory' = <<NodeSeq(dim)[it]>>]_vars
    /\ [][(pc = "while" /\ pc' = "for")
             => /\ it' = it + 1
                /\ start_node \in Range(covered_nodes')]_vars
    /\ [][pc = "while" => it' = it \/ pc' = "for"]_vars

\* A finished build in which a walk merged and a node was skipped: fewer
\* walks (roots plus merges) than nodes.
C20_Witness ==
    /\ Done
    /\ SomeMerge
    /\ Len(roots) + (Len(covered_nodes) - Cardinality(Range(covered_nodes))) < NumNodes

====
